---------------------------- MODULE Spec2Model ----------------------------
(***************************************************************************)
(* Model of the dashboard's real-time ingestion path (streamlit.py):       *)
(*   - WebSocketManager: start(), stop() and the listener coroutine        *)
(*     _listen(), one step per shared-memory access or await;              *)
(*   - the mailbox, a queue.Queue with atomic put / empty / get;           *)
(*   - the driver's process_websocket_updates(), the drain loop whose body *)
(*     folds one message into the session state.                           *)
(* Variables named like the program's are program state; pushed, dequeued, *)
(* received, pongs, attempts, opened, idle, sleeps, toasts, batch, replies *)
(* and threads_alive are history variables that record what the program    *)
(* did.                                                                     *)
(***************************************************************************)
EXTENDS Naturals, Sequences, FiniteSets, TLC

VARIABLES
    queue,             \* WebSocketManager.queue: the mailbox, oldest first
    stop_event,        \* WebSocketManager.stop_event is set
    thread,            \* WebSocketManager.thread: "none", "alive" or "dead"
    pc,                \* where the listener coroutine stands
    message,           \* _listen's local: <<frame>> returned by recv(), or <<>>
    exc,               \* the exception propagating to _listen's outer handlers, or ""
    websocket,         \* the connection: "none", "open" or "closed"
    websocket_data,    \* st.session_state.websocket_data
    processed_emails,  \* st.session_state.processed_emails
    pending_toast,     \* st.session_state.pending_toast: <<>> (None) or <<toast>>
    drv,               \* where the driver stands in process_websocket_updates
    pushed,            \* history: every queue.put, as [by, event]
    dequeued,          \* history: every message the driver took, as taken
    received,          \* history: every frame recv() returned, as [conn, frame]
    pongs,             \* history: every websocket.send call, as [conn, payload]
    attempts,          \* history: number of websockets.connect calls made
    opened,            \* history: number of those that succeeded
    idle,              \* history: consecutive receive timeouts on the connection
    sleeps,            \* history: number of asyncio.sleep(5) calls made
    toasts,            \* history: the notifications shown, oldest first
    batch,             \* history: the messages the current drain has taken
    replies,           \* history: every send_manual_reply call, as [outcome, result]
    views,             \* history: every rendering of the manual review queue, as [outcome, view]
    drv2,              \* a second session's position in its drain loop: "test" or "get"
    dequeued2,         \* the messages the second session has taken, the fold of which is its snapshot
    threads_alive      \* history: number of listener threads started and not ended

vars == <<queue, stop_event, thread, pc, message, exc, websocket,
          websocket_data, processed_emails, pending_toast, drv,
          pushed, dequeued, received, pongs, attempts, opened, idle, sleeps,
          toasts, batch, replies, views, drv2, dequeued2, threads_alive>>

listenerVars == <<pc, message, exc, websocket>>
sessionVars  == <<websocket_data, processed_emails, pending_toast>>
historyVars  == <<pushed, dequeued, received, pongs, attempts, opened, idle, sleeps,
                  toasts, batch, replies, views, drv2, dequeued2>>

-----------------------------------------------------------------------------
(* Bounds of the model. *)

\* what the network does to the listener: connect() calls answered plus
\* frames delivered, over all connections
MaxInputs == 3
\* consecutive receive timeouts that are counted (later ones are not)
MaxIdle == 2
\* events folded under SpecFold
MaxFold == 3
\* email_processed events folded under SpecRecent
MaxRecentFolds == 11

-----------------------------------------------------------------------------
(* Python values. *)

\* Python's None
None == "None"

\* dict.get(key, default)
Get(d, key, default) == IF key \in DOMAIN d THEN d[key] ELSE default

\* the empty dict {}
EmptyDict == [k \in {} |-> None]

\* bool(v) for the values a message_id takes here: None and "" are falsy
Truthy(v) == v # None /\ v # ""

\* seq[:n]
Take(seq, n) == SubSeq(seq, 1, IF Len(seq) < n THEN Len(seq) ELSE n)

\* list.insert(0, x)
Insert0(seq, x) == <<x>> \o seq

-----------------------------------------------------------------------------
(* Events: the dicts the listener puts on the mailbox. *)

\* the three status texts _listen publishes
Connecting   == "Connecting..."
Connected    == "Connected"
Disconnected == "Disconnected"

\* {'type': 'connection_status', 'status': s}
StatusEvent(s) == [type |-> "connection_status", status |-> s]

\* the network's answers so far: connect() outcomes and frames delivered
Inputs(n, frames) == n + Len(frames)

\* st.session_state.websocket_data as first assigned
InitialWebsocketData ==
    [status |-> EmptyDict, stats |-> EmptyDict, latest_events |-> <<>>,
     connected |-> FALSE, last_update |-> <<>>, is_processing |-> FALSE,
     last_processed_event |-> <<>>, connection_status |-> Disconnected]

\* the slice bound of latest_events[:10]
RecentCap == 10

-----------------------------------------------------------------------------
(* The body of the drain loop: folding one message into the session state. *)

\* msg_type = message.get('type')
MsgType(msg) == Get(msg, "type", None)

\* final_record = message.get('record', {})
FinalRecord(msg) == Get(msg, "record", EmptyDict)

\* ai_response: result.final_state.reply_response.body when every level is
\* there, else None (the values here are dicts or absent)
AiResponse(msg) ==
    LET result         == Get(msg, "result", EmptyDict)
        final_state    == Get(result, "final_state", EmptyDict)
        reply_response == Get(final_state, "reply_response", EmptyDict)
    IN  Get(reply_response, "body", None)

\* mutant of HasMessageId: the key is tested, not its value
HasMessageIdKey(msg) == "message_id" \in DOMAIN FinalRecord(msg)

\* if final_record.get('message_id'):
HasMessageId(msg) == Truthy(Get(FinalRecord(msg), "message_id", None))

\* final_record['ai_response'] = ai_response
WithAiResponse(rec, ai) ==
    [k \in DOMAIN rec \cup {"ai_response"} |->
        IF k = "ai_response" THEN ai ELSE rec[k]]

\* The message object once the loop body has run on it: final_record is the
\* dict held in message['record'], so writing ai_response into it changes the
\* message that latest_events, last_processed_event and pending_toast hold.
MessageObject(msg) ==
    IF MsgType(msg) = "email_processed" /\ HasMessageId(msg)
    THEN [msg EXCEPT !.record = WithAiResponse(FinalRecord(msg), AiResponse(msg))]
    ELSE msg

\* mutant of PrependRecent: the slice is missing
PrependRecentUncapped(events, obj) == Insert0(events, obj)

\* latest_events.insert(0, message); latest_events = latest_events[:10]
PrependRecent(events, obj) == Take(Insert0(events, obj), RecentCap)

\* mutant of FoldWebsocketData: the stats test is one more elif of the chain
FoldWebsocketDataStatsElif(wd, msg, now) ==
    LET t   == MsgType(msg)
        obj == MessageObject(msg)
        wd1 == CASE t = "connection_status" ->
                      [wd EXCEPT !.connection_status = Get(msg, "status", "Unknown"),
                                 !.connected = (Get(msg, "status", None) = Connected)]
                 [] t = "processing_started" ->
                      [wd EXCEPT !.is_processing = TRUE]
                 [] t = "email_processed" ->
                      [wd EXCEPT !.is_processing = FALSE,
                                 !.last_processed_event = <<obj>>,
                                 !.latest_events = PrependRecent(@, obj)]
                 [] OTHER ->
                      IF "stats" \in DOMAIN msg
                      THEN [wd EXCEPT !.stats = msg.stats]
                      ELSE wd
    IN  [wd1 EXCEPT !.last_update = <<now>>]

\* mutant of FoldWebsocketData: email_processed leaves is_processing alone
FoldWebsocketDataKeepsFlag(wd, msg, now) ==
    LET t   == MsgType(msg)
        obj == MessageObject(msg)
        wd1 == CASE t = "connection_status" ->
                      [wd EXCEPT !.connection_status = Get(msg, "status", "Unknown"),
                                 !.connected = (Get(msg, "status", None) = Connected)]
                 [] t = "processing_started" ->
                      [wd EXCEPT !.is_processing = TRUE]
                 [] t = "email_processed" ->
                      [wd EXCEPT !.last_processed_event = <<obj>>,
                                 !.latest_events = PrependRecent(@, obj)]
                 [] OTHER -> wd
        wd2 == IF "stats" \in DOMAIN msg
               THEN [wd1 EXCEPT !.stats = msg.stats]
               ELSE wd1
    IN  [wd2 EXCEPT !.last_update = <<now>>]

\* mutant of FoldWebsocketData: an event of any other type ends the
\* processing, as an else branch of the chain would
FoldWebsocketDataElseIdle(wd, msg, now) ==
    LET t   == MsgType(msg)
        obj == MessageObject(msg)
        wd1 == CASE t = "connection_status" ->
                      [wd EXCEPT !.connection_status = Get(msg, "status", "Unknown"),
                                 !.connected = (Get(msg, "status", None) = Connected)]
                 [] t = "processing_started" ->
                      [wd EXCEPT !.is_processing = TRUE]
                 [] t = "email_processed" ->
                      [wd EXCEPT !.is_processing = FALSE,
                                 !.last_processed_event = <<obj>>,
                                 !.latest_events = PrependRecent(@, obj)]
                 [] OTHER -> [wd EXCEPT !.is_processing = FALSE]
        wd2 == IF "stats" \in DOMAIN msg
               THEN [wd1 EXCEPT !.stats = msg.stats]
               ELSE wd1
    IN  [wd2 EXCEPT !.last_update = <<now>>]

\* what the loop body assigns in websocket_data for one message taken at
\* logical time now
FoldWebsocketData(wd, msg, now) ==
    LET t   == MsgType(msg)
        obj == MessageObject(msg)
        wd1 == CASE t = "connection_status" ->
                      [wd EXCEPT !.connection_status = Get(msg, "status", "Unknown"),
                                 !.connected = (Get(msg, "status", None) = Connected)]
                 [] t = "processing_started" ->
                      [wd EXCEPT !.is_processing = TRUE]
                 [] t = "email_processed" ->
                      [wd EXCEPT !.is_processing = FALSE,
                                 !.last_processed_event = <<obj>>,
                                 !.latest_events = PrependRecent(@, obj)]
                 [] OTHER -> wd
        wd2 == IF "stats" \in DOMAIN msg
               THEN [wd1 EXCEPT !.stats = msg.stats]
               ELSE wd1
    IN  [wd2 EXCEPT !.last_update = <<now>>]

\* mutant of FoldProcessedEmails: an id already archived is kept
FoldProcessedEmailsKeepFirst(pe, msg) ==
    IF MsgType(msg) = "email_processed" /\ HasMessageId(msg)
    THEN LET id == FinalRecord(msg).message_id
         IN  [k \in DOMAIN pe \cup {id} |->
                 IF k \in DOMAIN pe THEN pe[k] ELSE MessageObject(msg).record]
    ELSE pe

\* processed_emails[final_record['message_id']] = final_record
FoldProcessedEmails(pe, msg) ==
    IF MsgType(msg) = "email_processed" /\ HasMessageId(msg)
    THEN LET id == FinalRecord(msg).message_id
         IN  [k \in DOMAIN pe \cup {id} |->
                 IF k = id THEN MessageObject(msg).record ELSE pe[k]]
    ELSE pe

\* pending_toast = {'type': 'email_processed', 'message': message}
FoldPendingToast(pt, msg) ==
    IF MsgType(msg) = "email_processed"
    THEN <<[type |-> "email_processed", message |-> MessageObject(msg)]>>
    ELSE pt

\* UI.show_toast_notification: which of the three toasts is shown
ToastKind(event) ==
    LET result == Get(event, "result", EmptyDict)
    IN  IF Get(result, "success", FALSE) = TRUE
        THEN IF Get(result, "response_sent", FALSE) = TRUE
             THEN "reply_sent" ELSE "manual_review"
        ELSE "error"

\* main, after process_websocket_updates: the toasts shown for pending_toast
ShownToasts(pt) ==
    IF pt # <<>> /\ pt[1].type = "email_processed"
    THEN <<ToastKind(pt[1].message)>>
    ELSE <<>>

-----------------------------------------------------------------------------
(* The mailbox: queue.Queue(), unbounded, each call atomic. *)

\* mutant of QueuePut: the item goes to the front
QueuePutFront(q, item) == <<item>> \o q

\* queue.put(item)
QueuePut(q, item) == Append(q, item)

\* queue.empty()
QueueEmpty(q) == q = <<>>

\* the item queue.get() returns
QueueFront(q) == Head(q)

\* the queue after queue.get()
QueueRest(q) == Tail(q)

-----------------------------------------------------------------------------
(* Frames: what websocket.recv() returns.  A frame is a text or binary     *)
(* payload; json says what json.loads makes of it: a JSON object (a dict), *)
(* another JSON value (here an array), text that is no JSON document       *)
(* (JSONDecodeError), or bytes that are no UTF-8 (UnicodeDecodeError).     *)

ObjectFrame(obj) == [wire |-> "text", json |-> "object", obj |-> obj]
ArrayFrame       == [wire |-> "text", json |-> "array"]
InvalidFrame     == [wire |-> "text", json |-> "invalid"]
NonUtf8Frame     == [wire |-> "binary", json |-> "non_utf8"]

\* events of the stream used under Spec
PingEvent    == [type |-> "ping"]
StartedEvent == [type |-> "processing_started"]
EmailEvent(id, body, success, sent) ==
    [type   |-> "email_processed", email |-> "a@x.com",
     result |-> [success |-> success, response_sent |-> sent,
                 final_state |-> [reply_response |-> [body |-> body]]],
     record |-> [message_id |-> id, sender |-> "a@x.com"]]
StreamStatusEvent == StatusEvent(Disconnected)

StreamEvents ==
    {StartedEvent, EmailEvent("m1", "b1", TRUE, TRUE), StreamStatusEvent}

Frames ==
    {ObjectFrame(e) : e \in StreamEvents \cup {PingEvent}}
        \cup {ArrayFrame, InvalidFrame, NonUtf8Frame}

\* json.dumps(text) of a str: the JSON string literal holding text
JsonDumps(text) == [wire |-> "text", json |-> "string", value |-> text]

\* the reply to a ping: json.dumps('{"type":"pong"}')
PongPayload == JsonDumps("{\"type\":\"pong\"}")

\* what json.loads(message) followed by data.get('type') raises, or ""
DecodeError(frame) ==
    CASE frame.json = "invalid"  -> "JSONDecodeError"
      [] frame.json = "non_utf8" -> "UnicodeDecodeError"
      [] frame.json = "array"    -> "AttributeError"
      [] OTHER                   -> ""

\* mutant of IsPing: the test never matches
IsPingNever(frame) == FALSE

\* if data.get('type') == 'ping'
IsPing(frame) == frame.json = "object" /\ MsgType(frame.obj) = "ping"

\* the inner try's handlers: except json.JSONDecodeError (asyncio.TimeoutError
\* is raised by wait_for, never by the decoding)
CaughtInLoop(error) == error = "JSONDecodeError"

\* the status the outer handlers publish, whichever of the two catches
HandlerStatus(error) == Disconnected

-----------------------------------------------------------------------------
(* Initial state: the module's session-state initialisation and            *)
(* WebSocketManager.__init__.                                              *)

Init ==
    /\ queue = <<>>
    /\ stop_event = FALSE
    /\ thread = "none"
    /\ pc = "none"
    /\ message = <<>>
    /\ exc = ""
    /\ websocket = "none"
    /\ websocket_data = InitialWebsocketData
    /\ processed_emails = EmptyDict
    /\ pending_toast = <<>>
    /\ drv = "test"
    /\ pushed = <<>>
    /\ dequeued = <<>>
    /\ received = <<>>
    /\ pongs = <<>>
    /\ attempts = 0
    /\ opened = 0
    /\ idle = 0
    /\ sleeps = 0
    /\ toasts = <<>>
    /\ batch = <<>>
    /\ replies = <<>>
    /\ views = <<>>
    /\ drv2 = "test"
    /\ dequeued2 = <<>>
    /\ threads_alive = 0

-----------------------------------------------------------------------------
(* WebSocketManager.start and stop. *)

\* start() without its test of self.thread
StartUnguarded ==
    /\ thread' = "alive"
    /\ threads_alive' = threads_alive + 1
    /\ pc' = "outer"
    /\ message' = <<>>
    /\ exc' = ""
    /\ websocket' = "none"
    /\ UNCHANGED <<queue, stop_event, drv, sessionVars, historyVars>>

\* mutant of Start: start() clears the stop signal for the new thread
StartClearsStop ==
    /\ thread \in {"none", "dead"}
    /\ thread' = "alive"
    /\ threads_alive' = threads_alive + 1
    /\ stop_event' = FALSE
    /\ pc' = "outer"
    /\ message' = <<>>
    /\ exc' = ""
    /\ websocket' = "none"
    /\ UNCHANGED <<queue, drv, sessionVars, historyVars>>

\* start(): a new thread unless one is alive; the thread runs _listen
Start ==
    /\ thread \in {"none", "dead"}
    /\ thread' = "alive"
    /\ threads_alive' = threads_alive + 1
    /\ pc' = "outer"
    /\ message' = <<>>
    /\ exc' = ""
    /\ websocket' = "none"
    /\ UNCHANGED <<queue, stop_event, drv, sessionVars, historyVars>>

\* stop(): stop_event.set(); the join that follows changes no state
Stop ==
    /\ ~stop_event
    /\ stop_event' = TRUE
    /\ UNCHANGED <<queue, thread, listenerVars, drv, sessionVars, historyVars, threads_alive>>

-----------------------------------------------------------------------------
(* WebSocketManager._listen, one action per step. *)

\* the put of a status event the listener makes itself
PutStatus(s) ==
    /\ queue' = QueuePut(queue, StatusEvent(s))
    /\ pushed' = Append(pushed, [by |-> "listener", event |-> StatusEvent(s)])

\* the outer loop written as "while True:"
OuterTestIgnoresStop ==
    /\ pc = "outer"
    /\ Inputs(attempts, received) < MaxInputs
    /\ pc' = "put_connecting"
    /\ UNCHANGED <<queue, stop_event, thread, message, exc, websocket, drv,
                   sessionVars, historyVars, threads_alive>>

\* while not self.stop_event.is_set(): the outer loop's test; when it fails
\* _listen returns and the thread ends
OuterTest ==
    /\ pc = "outer"
    /\ IF stop_event
       THEN /\ pc' = "done"
            /\ thread' = "dead"
            /\ threads_alive' = threads_alive - 1
       ELSE /\ Inputs(attempts, received) < MaxInputs
            /\ pc' = "put_connecting"
            /\ UNCHANGED <<thread, threads_alive>>
    /\ UNCHANGED <<queue, stop_event, message, exc, websocket, drv,
                   sessionVars, historyVars>>

\* self.queue.put({'type': 'connection_status', 'status': 'Connecting...'})
PutConnecting ==
    /\ pc = "put_connecting"
    /\ PutStatus(Connecting)
    /\ pc' = "connect"
    /\ UNCHANGED <<stop_event, thread, message, exc, websocket, drv, sessionVars,
                   dequeued, received, pongs, attempts, opened, idle, sleeps, toasts, batch, replies, views, drv2, dequeued2, threads_alive>>

\* async with websockets.connect(self.url) as websocket: the connection opens
ConnectOk ==
    /\ pc = "connect"
    /\ websocket' = "open"
    /\ attempts' = attempts + 1
    /\ opened' = opened + 1
    /\ pc' = "put_connected"
    /\ UNCHANGED <<queue, stop_event, thread, message, exc, drv, sessionVars,
                   pushed, dequeued, received, pongs, idle, sleeps, toasts, batch, replies, views, drv2, dequeued2, threads_alive>>

\* websockets.connect raises: ConnectionRefusedError goes to the first outer
\* handler, anything else (a timeout, an OSError, a bad URI) to the second
ConnectFail ==
    /\ pc = "connect"
    /\ \E error \in {"ConnectionRefusedError", "OSError"} : exc' = error
    /\ attempts' = attempts + 1
    /\ pc' = "except"
    /\ UNCHANGED <<queue, stop_event, thread, message, websocket, drv, sessionVars,
                   pushed, dequeued, received, pongs, opened, idle, sleeps, toasts, batch, replies, views, drv2, dequeued2, threads_alive>>

\* the listener sets the session's connection status itself besides the put
PutConnectedWritesSnapshot ==
    /\ pc = "put_connected"
    /\ PutStatus(Connected)
    /\ websocket_data' = [websocket_data EXCEPT !.connection_status = Connected,
                                                !.connected = TRUE]
    /\ pc' = "inner"
    /\ UNCHANGED <<stop_event, thread, message, exc, websocket, drv,
                   processed_emails, pending_toast, dequeued, received, pongs,
                   attempts, opened, idle, sleeps, toasts, batch, replies, views, drv2, dequeued2,
                   threads_alive>>

\* mutant of PutConnected: the connection is not announced
PutConnectedSilent ==
    /\ pc = "put_connected"
    /\ pc' = "inner"
    /\ UNCHANGED <<queue, stop_event, thread, message, exc, websocket, drv,
                   sessionVars, historyVars, threads_alive>>

\* self.queue.put({'type': 'connection_status', 'status': 'Connected'})
PutConnected ==
    /\ pc = "put_connected"
    /\ PutStatus(Connected)
    /\ pc' = "inner"
    /\ UNCHANGED <<stop_event, thread, message, exc, websocket, drv, sessionVars,
                   dequeued, received, pongs, attempts, opened, idle, sleeps, toasts, batch, replies, views, drv2, dequeued2, threads_alive>>

\* the inner loop written as "while True:"
InnerTestIgnoresStop ==
    /\ pc = "inner"
    /\ pc' = "recv"
    /\ UNCHANGED <<queue, stop_event, thread, message, exc, websocket, drv,
                   sessionVars, historyVars, threads_alive>>

\* while not self.stop_event.is_set(): the inner loop's test; when it fails
\* the async with block is left, which closes the connection
InnerTest ==
    /\ pc = "inner"
    /\ IF stop_event
       THEN /\ pc' = "sleep"
            /\ websocket' = "closed"
            /\ idle' = 0
       ELSE /\ pc' = "recv"
            /\ UNCHANGED <<websocket, idle, threads_alive>>
    /\ UNCHANGED <<queue, stop_event, thread, message, exc, drv, sessionVars,
                   pushed, dequeued, received, pongs, attempts, opened, sleeps,
                   toasts, batch, replies, views, drv2, dequeued2, threads_alive>>

\* message = await asyncio.wait_for(websocket.recv(), timeout=30.0): a frame
RecvFrame ==
    /\ pc = "recv"
    /\ Inputs(attempts, received) < MaxInputs
    /\ \E frame \in Frames :
          /\ message' = <<frame>>
          /\ received' = Append(received, [conn |-> attempts, frame |-> frame])
    /\ idle' = 0
    /\ pc' = "decode"
    /\ UNCHANGED <<queue, stop_event, thread, exc, websocket, drv, sessionVars,
                   pushed, dequeued, pongs, attempts, opened, sleeps, toasts, batch, replies, views, drv2, dequeued2, threads_alive>>

\* mutant of RecvTimeout: the timeout is not caught inside the loop
RecvTimeoutEscapes ==
    /\ pc = "recv"
    /\ idle < MaxIdle
    /\ idle' = idle + 1
    /\ exc' = "TimeoutError"
    /\ websocket' = "closed"
    /\ pc' = "except"
    /\ UNCHANGED <<queue, stop_event, thread, message, drv, sessionVars,
                   pushed, dequeued, received, pongs, attempts, opened, sleeps,
                   toasts, batch, replies, views, drv2, dequeued2, threads_alive>>

\* wait_for raises asyncio.TimeoutError: except asyncio.TimeoutError: continue
RecvTimeout ==
    /\ pc = "recv"
    /\ idle' = (IF idle < MaxIdle THEN idle + 1 ELSE idle)
    /\ pc' = "inner"
    /\ UNCHANGED <<queue, stop_event, thread, message, exc, websocket, drv,
                   sessionVars, pushed, dequeued, received, pongs, attempts,
                   opened, sleeps, toasts, batch, replies, views, drv2, dequeued2, threads_alive>>

\* mutant of RecvClosed: the closed connection ends the inner loop by a
\* break, without an exception for the outer handlers
RecvClosedBreaks ==
    /\ pc = "recv"
    /\ websocket' = "closed"
    /\ idle' = 0
    /\ pc' = "sleep"
    /\ UNCHANGED <<queue, stop_event, thread, message, exc, drv, sessionVars,
                   pushed, dequeued, received, pongs, attempts, opened, sleeps,
                   toasts, batch, replies, views, drv2, dequeued2, threads_alive>>

\* recv raises ConnectionClosed: it leaves the async with block (the
\* connection is closed) for the outer handlers
RecvClosed ==
    /\ pc = "recv"
    /\ exc' = "ConnectionClosed"
    /\ websocket' = "closed"
    /\ idle' = 0
    /\ pc' = "except"
    /\ UNCHANGED <<queue, stop_event, thread, message, drv, sessionVars,
                   pushed, dequeued, received, pongs, attempts, opened, sleeps, toasts, batch, replies, views, drv2, dequeued2, threads_alive>>

\* data = json.loads(message) and data.get('type') raise
DecodeRaises ==
    /\ pc = "decode"
    /\ DecodeError(message[1]) # ""
    /\ IF CaughtInLoop(DecodeError(message[1]))
       THEN \* except json.JSONDecodeError: logger.warning(...)
            /\ pc' = "inner"
            /\ UNCHANGED <<exc, websocket, threads_alive>>
       ELSE /\ exc' = DecodeError(message[1])
            /\ websocket' = "closed"
            /\ pc' = "except"
    /\ UNCHANGED <<queue, stop_event, thread, message, drv, sessionVars,
                   historyVars, threads_alive>>

\* await websocket.send(json.dumps('{"type":"pong"}')); continue.  The send
\* returns, or raises ConnectionClosed
AnswerPing ==
    /\ pc = "decode"
    /\ DecodeError(message[1]) = ""
    /\ IsPing(message[1])
    /\ pongs' = Append(pongs, [conn |-> attempts, payload |-> PongPayload])
    /\ \/ /\ pc' = "inner"
          /\ UNCHANGED <<exc, websocket, threads_alive>>
       \/ /\ exc' = "ConnectionClosed"
          /\ websocket' = "closed"
          /\ pc' = "except"
    /\ UNCHANGED <<queue, stop_event, thread, message, drv, sessionVars,
                   pushed, dequeued, received, attempts, opened, idle, sleeps, toasts, batch, replies, views, drv2, dequeued2, threads_alive>>

\* self.queue.put(data)
Forward ==
    /\ pc = "decode"
    /\ DecodeError(message[1]) = ""
    /\ ~IsPing(message[1])
    /\ queue' = QueuePut(queue, message[1].obj)
    /\ pushed' = Append(pushed, [by |-> "stream", event |-> message[1].obj])
    /\ pc' = "inner"
    /\ UNCHANGED <<stop_event, thread, message, exc, websocket, drv, sessionVars,
                   dequeued, received, pongs, attempts, opened, idle, sleeps, toasts, batch, replies, views, drv2, dequeued2, threads_alive>>

\* mutant of Except: the first handler only logs
ExceptOnlyLogs ==
    /\ pc = "except"
    /\ IF exc \in {"ConnectionClosed", "ConnectionRefusedError"}
       THEN UNCHANGED <<queue, pushed, threads_alive>>
       ELSE PutStatus(HandlerStatus(exc))
    /\ exc' = ""
    /\ pc' = "sleep"
    /\ UNCHANGED <<stop_event, thread, message, websocket, drv, sessionVars,
                   dequeued, received, pongs, attempts, opened, idle, sleeps,
                   toasts, batch, replies, views, drv2, dequeued2, threads_alive>>

\* mutant of Except: the handlers sit outside the loop, so _listen returns
ExceptGivesUp ==
    /\ pc = "except"
    /\ PutStatus(HandlerStatus(exc))
    /\ exc' = ""
    /\ pc' = "done"
    /\ thread' = "dead"
    /\ threads_alive' = threads_alive - 1
    /\ UNCHANGED <<stop_event, message, websocket, drv, sessionVars,
                   dequeued, received, pongs, attempts, opened, idle, sleeps,
                   toasts, batch, replies, views, drv2, dequeued2>>

\* except (ConnectionClosed, ConnectionRefusedError) / except Exception:
\* self.queue.put({'type': 'connection_status', 'status': 'Disconnected'})
Except ==
    /\ pc = "except"
    /\ PutStatus(HandlerStatus(exc))
    /\ exc' = ""
    /\ pc' = "sleep"
    /\ UNCHANGED <<stop_event, thread, message, websocket, drv, sessionVars,
                   dequeued, received, pongs, attempts, opened, idle, sleeps, toasts, batch, replies, views, drv2, dequeued2, threads_alive>>

\* await asyncio.sleep(5), then back to the outer loop's test
Sleep ==
    /\ pc = "sleep"
    /\ sleeps' = sleeps + 1
    /\ pc' = "outer"
    /\ UNCHANGED <<queue, stop_event, thread, message, exc, websocket, drv,
                   sessionVars, pushed, dequeued, received, pongs, attempts,
                   opened, idle, toasts, batch, replies, views, drv2, dequeued2, threads_alive>>

Listen ==
    \/ OuterTest \/ PutConnecting \/ ConnectOk \/ ConnectFail \/ PutConnected
    \/ InnerTest \/ RecvFrame \/ RecvTimeout \/ RecvClosed
    \/ DecodeRaises \/ AnswerPing \/ Forward \/ Except \/ Sleep

-----------------------------------------------------------------------------
(* The driver: main's call of process_websocket_updates, then the toast.   *)

\* the drain loop written as "while True:"
DrainTestBlind ==
    /\ thread # "none"
    /\ drv = "test"
    /\ drv' = "get"
    /\ UNCHANGED <<queue, stop_event, thread, listenerVars, sessionVars, historyVars, threads_alive>>

\* while not ws_manager.queue.empty(): the queue holds something
DrainTest ==
    /\ thread # "none"
    /\ drv = "test"
    /\ ~QueueEmpty(queue)
    /\ drv' = "get"
    /\ UNCHANGED <<queue, stop_event, thread, listenerVars, sessionVars, historyVars, threads_alive>>

\* the drain loop left while the queue may still hold events
DrainReturnAnytime ==
    /\ thread # "none"
    /\ drv = "test"
    /\ toasts' = toasts \o ShownToasts(pending_toast)
    /\ pending_toast' = <<>>
    /\ batch' = <<>>
    /\ UNCHANGED <<queue, stop_event, thread, listenerVars, drv, websocket_data,
                   processed_emails, pushed, dequeued, received, pongs,
                   attempts, opened, idle, sleeps, replies, views, drv2, dequeued2, threads_alive>>

\* the queue is empty: process_websocket_updates returns, main shows and
\* clears the pending toast, renders, sleeps and reruns into the next poll
DrainReturn ==
    /\ thread # "none"
    /\ drv = "test"
    /\ QueueEmpty(queue)
    /\ toasts' = toasts \o ShownToasts(pending_toast)
    /\ pending_toast' = <<>>
    /\ batch' = <<>>
    /\ UNCHANGED <<queue, stop_event, thread, listenerVars, drv, websocket_data,
                   processed_emails, pushed, dequeued, received, pongs,
                   attempts, opened, idle, sleeps, replies, views, drv2, dequeued2, threads_alive>>

\* the loop body on one message: the assignments to the session state
LoopBody(msg) ==
    /\ dequeued' = Append(dequeued, msg)
    /\ websocket_data' = FoldWebsocketData(websocket_data, msg, Len(dequeued) + 1)
    /\ processed_emails' = FoldProcessedEmails(processed_emails, msg)
    /\ pending_toast' = FoldPendingToast(pending_toast, msg)

\* message = ws_manager.queue.get() and the loop body; get() blocks while
\* the queue is empty
DrainGet ==
    /\ drv = "get"
    /\ ~QueueEmpty(queue)
    /\ queue' = QueueRest(queue)
    /\ LoopBody(QueueFront(queue))
    /\ batch' = Append(batch, QueueFront(queue))
    /\ drv' = "test"
    /\ UNCHANGED <<stop_event, thread, listenerVars, pushed, received, pongs,
                   attempts, opened, idle, sleeps, toasts, replies, views, drv2, dequeued2, threads_alive>>

Driver == DrainTest \/ DrainReturn \/ DrainGet

Next == Start \/ Stop \/ Listen \/ Driver

Spec == Init /\ [][Next]_vars

\* The script run ends in time.sleep and st.rerun(), so main runs again and
\* again while the session is open: a driver step that stays possible is
\* taken.  Nothing is assumed about the listener.  The dashboard starts the
\* manager (manager.start() in get_websocket_manager) and calls stop()
\* nowhere, so its runs are those of start, the listener and the driver.
DashboardNext == Start \/ Listen \/ Driver

SpecPoll == Init /\ [][DashboardNext]_vars /\ WF_vars(Driver)

\* The listener runs in a thread of its own (threading.Thread(target=
\* self._run_client, daemon=True).start()) and each of its awaits ends: the
\* receive after 30 s at most, the sleep after 5 s, the connect with an
\* outcome.  A listener step that stays possible is therefore taken.  The
\* listener reads nothing the driver writes and put() on the unbounded queue
\* never waits, so its progress is that of the manager and listener alone.
ManagerNext == Start \/ Stop \/ Listen

SpecLive == Init /\ [][ManagerNext]_vars /\ WF_vars(Listen)

-----------------------------------------------------------------------------
(* APIClient.send_manual_reply: one POST with a 30 s timeout, then          *)
(* raise_for_status, inside try/except.  An outcome of the request is the   *)
(* status code of the response, or the class of the exception that          *)
(* requests.post raises.                                                    *)

\* the send_manual_reply calls that are followed
MaxReplies == 3

\* requests.post returned a response with this status code
Response(code) == [status |-> code]

\* requests.post raised an exception of this class
Raises(class) == [raises |-> class]

PostOutcomes ==
    {Response(code) : code \in {200, 404, 500}} \cup
    {Raises(class) : class \in {"ConnectTimeout", "ReadTimeout",
                                "ConnectionError", "TooManyRedirects"}}

\* the exception the try block ends with, "" when it ends without one:
\* response.raise_for_status() raises HTTPError for a 4xx or 5xx status
Raised(outcome) ==
    IF "raises" \in DOMAIN outcome THEN outcome.raises
    ELSE IF outcome.status >= 400 THEN "HTTPError"
    ELSE ""

\* the classes of requests.exceptions: Timeout is the base of ConnectTimeout
\* and ReadTimeout, RequestException the base of them all
TimeoutClasses == {"Timeout", "ConnectTimeout", "ReadTimeout"}

RequestExceptionClasses ==
    TimeoutClasses \cup {"HTTPError", "ConnectionError", "TooManyRedirects"}

ReplySent == [success |-> TRUE, message |-> "Reply sent successfully"]

ReplyTimedOut ==
    [success |-> TRUE,
     message |-> "Reply sent (request timed out but likely successful)"]

\* {"success": False, "message": f"Request failed: {str(e)}"}
ReplyFailed(error) == [success |-> FALSE, message |-> "Request failed: " \o error]

\* mutant of SendManualReply: the handler of RequestException comes first
SendManualReplyBaseFirst(outcome) ==
    LET error == Raised(outcome)
    IN  IF error = "" THEN [returned |-> TRUE, value |-> ReplySent]
        ELSE IF error \in RequestExceptionClasses
             THEN [returned |-> TRUE, value |-> ReplyFailed(error)]
        ELSE IF error \in TimeoutClasses
             THEN [returned |-> TRUE, value |-> ReplyTimedOut]
        ELSE [returned |-> FALSE, raised |-> error]

\* what the call does for one outcome of the request: the value it returns,
\* or the exception that leaves it when no except clause matches
SendManualReply(outcome) ==
    LET error == Raised(outcome)
    IN  IF error = "" THEN [returned |-> TRUE, value |-> ReplySent]
        ELSE IF error \in TimeoutClasses
             THEN [returned |-> TRUE, value |-> ReplyTimedOut]
        ELSE IF error \in RequestExceptionClasses
             THEN [returned |-> TRUE, value |-> ReplyFailed(error)]
        ELSE [returned |-> FALSE, raised |-> error]

\* result = self.api_client.send_manual_reply(reply_data)
ManualReply ==
    /\ Len(replies) < MaxReplies
    /\ \E outcome \in PostOutcomes :
           replies' = Append(replies, [outcome |-> outcome,
                                       result  |-> SendManualReply(outcome)])
    /\ UNCHANGED <<queue, stop_event, thread, listenerVars, drv, sessionVars,
                   pushed, dequeued, received, pongs, attempts, opened, idle,
                   sleeps, toasts, batch, threads_alive, views, drv2, dequeued2>>

SpecApi == Init /\ [][ManualReply]_vars

-----------------------------------------------------------------------------
(* APIClient._request and the manual review page.  A value of Python is a   *)
(* record with its kind: None, a list with its items, a dict with its keys. *)

\* the renderings of the manual review page that are followed
MaxViews == 3

NoneValue == [kind |-> "none"]
List(items) == [kind |-> "list", items |-> items]
Dict(keys) == [kind |-> "dict", keys |-> keys]

\* requests.request returned a response with this status code whose body
\* parses as this JSON value
JsonResponse(code, value) == [status |-> code, json |-> value]

\* the outcomes of GET /manual-review-emails: a queue of no, one or two
\* emails, a body that is not JSON, an error status, an exception
GetOutcomes ==
    {JsonResponse(200, List(items)) : items \in {<<>>, <<"m1">>, <<"m1", "m2">>}}
        \cup {Response(200), Response(500),
              Raises("ConnectionError"), Raises("ReadTimeout")}

\* the request did not give a response with a status below 400
Failed(outcome) == Raised(outcome) # ""

\* bool(value): None, the empty list and the empty dict are false
Bool(value) ==
    CASE value.kind = "none" -> FALSE
      [] value.kind = "list" -> value.items # <<>>
      [] value.kind = "dict" -> value.keys # <<>>

\* a or b
Or(a, b) == IF Bool(a) THEN a ELSE b

\* _request: the decoded body, a dict of the text and the status code when
\* the body is not JSON, None for a RequestException
Request(outcome) ==
    LET error == Raised(outcome)
    IN  IF error = ""
        THEN [returned |-> TRUE,
              value |-> IF "json" \in DOMAIN outcome THEN outcome.json
                        ELSE Dict(<<"message", "status_code">>)]
        ELSE IF error \in RequestExceptionClasses
             THEN [returned |-> TRUE, value |-> NoneValue]
        ELSE [returned |-> FALSE, raised |-> error]

\* return self._request("get", "/manual-review-emails") or []
GetManualReviewEmails(outcome) ==
    LET result == Request(outcome)
    IN  IF result.returned
        THEN [returned |-> TRUE, value |-> Or(result.value, List(<<>>))]
        ELSE result

NoEmailsInfo == [info |-> "No emails currently require manual review."]

\* st.info(f"{len(manual_emails)} emails require manual review")
QueueInfo(n) == [info |-> "emails require manual review", count |-> n]

\* what render_manual_review shows for the value the client returned: the
\* loop over a dict yields its keys, and email.get on a str raises
ManualReviewView(manual_emails) ==
    IF ~Bool(manual_emails) THEN [returned |-> TRUE, value |-> NoEmailsInfo]
    ELSE IF manual_emails.kind = "list"
         THEN [returned |-> TRUE, value |-> QueueInfo(Len(manual_emails.items))]
    ELSE [returned |-> FALSE, raised |-> "AttributeError"]

\* render_manual_review, up to the list of the emails
RenderManualReview ==
    /\ Len(views) < MaxViews
    /\ \E outcome \in GetOutcomes :
           LET result == GetManualReviewEmails(outcome)
           IN  views' = Append(views,
                   [outcome |-> outcome,
                    view    |-> IF result.returned
                                THEN ManualReviewView(result.value)
                                ELSE result])
    /\ UNCHANGED <<queue, stop_event, thread, listenerVars, drv, sessionVars,
                   pushed, dequeued, received, pongs, attempts, opened, idle,
                   sleeps, toasts, batch, replies, threads_alive, drv2, dequeued2>>

SpecReview == Init /\ [][RenderManualReview]_vars

-----------------------------------------------------------------------------
(* The loop body alone, on events drawn from the shapes the stream         *)
(* endpoint documents: SpecFold folds a few events of every shape,         *)
(* SpecRecent folds enough email_processed events to pass the cap of       *)
(* latest_events.                                                          *)

Stats1 == [total_processed |-> 1, successful_replies |-> 1,
           manual_reviews |-> 0, errors |-> 0]
Stats2 == [total_processed |-> 2, successful_replies |-> 1,
           manual_reviews |-> 1, errors |-> 0]
\* a stats record that lacks counters
StatsPartial == [total_processed |-> 3]

\* an email_processed event whose result carries no final_state
EmailNoReply(id) ==
    [type   |-> "email_processed", email |-> "b@x.com",
     result |-> [success |-> TRUE, response_sent |-> FALSE],
     record |-> [message_id |-> id, sender |-> "b@x.com"]]

\* an email_processed event whose record carries no message_id
EmailNoId ==
    [type   |-> "email_processed", email |-> "c@x.com",
     result |-> [success |-> FALSE, response_sent |-> FALSE,
                 final_state |-> [reply_response |-> [body |-> "b3"]]],
     record |-> [sender |-> "c@x.com"]]

\* an email_processed event with neither record nor result
EmailBare == [type |-> "email_processed", email |-> "d@x.com"]

EmailEvents ==
    {EmailEvent("m1", "b1", TRUE, TRUE), EmailNoReply("m1"),
     [EmailEvent("m2", "b2", FALSE, FALSE) EXCEPT !.email = "e@x.com"]
        @@ [stats |-> Stats2],
     EmailEvent("", "b1", TRUE, TRUE), EmailNoId, EmailBare}

FoldEvents ==
    EmailEvents \cup
    {StartedEvent,
     [type |-> "status_update", stats |-> Stats1],
     [stats |-> Stats2],
     StatusEvent(Connected), StatusEvent(Connecting),
     [type |-> "connection_status"],
     [type |-> "processing_started", stats |-> StatsPartial],
     [type |-> "connection_status", status |-> Disconnected, stats |-> Stats1],
     [type |-> "heartbeat"]}

RecentEvents == {EmailEvent("m1", "b1", TRUE, TRUE), EmailNoId, StartedEvent}

\* one turn of the drain loop on an event of FoldEvents
FoldAny ==
    /\ Len(dequeued) < MaxFold
    /\ \E msg \in FoldEvents : LoopBody(msg)
    /\ UNCHANGED <<queue, stop_event, thread, listenerVars, drv,
                   pushed, received, pongs, attempts, opened, idle, sleeps, toasts, batch, replies, views, drv2, dequeued2, threads_alive>>

\* one turn of the drain loop on an event of RecentEvents
FoldRecent ==
    /\ Len(dequeued) < MaxRecentFolds
    /\ \E msg \in RecentEvents : LoopBody(msg)
    /\ UNCHANGED <<queue, stop_event, thread, listenerVars, drv,
                   pushed, received, pongs, attempts, opened, idle, sleeps, toasts, batch, replies, views, drv2, dequeued2, threads_alive>>

SpecFold == Init /\ [][FoldAny]_vars

SpecRecent == Init /\ [][FoldRecent]_vars

-----------------------------------------------------------------------------
(* Operators the properties are stated with. *)

Last(seq) == seq[Len(seq)]

AllButLast(seq) == SubSeq(seq, 1, Len(seq) - 1)

\* the events put on the mailbox, in the order of the puts
PushedEvents == [i \in 1..Len(pushed) |-> pushed[i].event]

\* a status event the listener published itself
ListenerStatus(s) == [by |-> "listener", event |-> StatusEvent(s)]

ByStream(entry) == entry.by = "stream"

\* the received frames the listener has finished handling: all of them but
\* the one it holds while it stands at the decoding
Handled == IF pc = "decode" THEN AllButLast(received) ELSE received

\* json.loads(frame) returns a value: the frame is a JSON document
JsonDecodes(frame) == frame.json \in {"object", "array"}

\* the value json.loads returns: the dict, or [] for the array frame
JsonValue(frame) == IF frame.json = "object" THEN frame.obj ELSE <<>>

\* the handled frames that decode and are no ping
DueEntry(entry) == JsonDecodes(entry.frame) /\ ~IsPing(entry.frame)
DueFrames == SelectSeq(Handled, DueEntry)

\* the puts of stream events, in order
StreamPushed == SelectSeq(pushed, ByStream)

\* e is an email_processed event whose record carries message_id id
EmailWithId(e, id) ==
    /\ MsgType(e) = "email_processed"
    /\ "record" \in DOMAIN e
    /\ "message_id" \in DOMAIN e.record
    /\ e.record.message_id = id

\* e is an email_processed event with no record, no message_id, or an empty one
EmailWithoutId(e) ==
    /\ MsgType(e) = "email_processed"
    /\ \/ "record" \notin DOMAIN e
       \/ "message_id" \notin DOMAIN e.record
       \/ e.record.message_id \in {"", None}

\* the reply body an event carries at result.final_state.reply_response.body
ReplyBody(e) ==
    IF /\ "result" \in DOMAIN e
       /\ "final_state" \in DOMAIN e.result
       /\ "reply_response" \in DOMAIN e.result.final_state
       /\ "body" \in DOMAIN e.result.final_state.reply_response
    THEN e.result.final_state.reply_response.body
    ELSE None

\* the message ids folded so far
FoldedIds ==
    {dequeued[i].record.message_id :
        i \in {j \in 1..Len(dequeued) :
                 /\ MsgType(dequeued[j]) = "email_processed"
                 /\ "record" \in DOMAIN dequeued[j]
                 /\ "message_id" \in DOMAIN dequeued[j].record}}

\* the last folded event that carries message_id id
LastWithId(id) ==
    dequeued[CHOOSE i \in 1..Len(dequeued) :
                /\ EmailWithId(dequeued[i], id)
                /\ \A j \in (i + 1)..Len(dequeued) : ~EmailWithId(dequeued[j], id)]

-----------------------------------------------------------------------------
(* C1: with one listener putting and one driver draining, the events the   *)
(* driver has taken so far, followed by the events still in the mailbox,   *)
(* are exactly the events put, in the order of the puts: what was drained  *)
(* is a prefix of what was pushed, nothing lost, nothing duplicated.       *)
C1_DrainedPrefixOfPushed ==
    /\ Len(dequeued) <= Len(pushed)
    /\ dequeued = SubSeq(PushedEvents, 1, Len(dequeued))
    /\ queue = SubSeq(PushedEvents, Len(dequeued) + 1, Len(pushed))

\* a put lands while the driver is between its emptiness test and its get,
\* after two different events were drained
C1_Witness ==
    /\ Len(dequeued) >= 2
    /\ dequeued[1] # dequeued[2]
    /\ drv = "get"
    /\ Len(queue) >= 2

(* C2: as long as no connect has succeeded, the mailbox was given exactly  *)
(* Connecting, Disconnected, Connecting, Disconnected, ... by the          *)
(* listener, one pair per connect attempt, one sleep after each            *)
(* Disconnected before the next Connecting, and nothing else.              *)
C2_FailingPeriodStatuses ==
    opened = 0 =>
        /\ \A i \in 1..Len(pushed) :
              pushed[i] = ListenerStatus(IF i % 2 = 1 THEN Connecting ELSE Disconnected)
        /\ Len(pushed) + (IF pc = "except" THEN 1 ELSE 0)
              = 2 * attempts + (IF pc = "connect" THEN 1 ELSE 0)
        /\ sleeps = (Len(pushed) \div 2) - (IF pc = "sleep" THEN 1 ELSE 0)

\* two attempts have failed in a row and the third is under way
C2_Witness ==
    /\ opened = 0
    /\ attempts = 2
    /\ Len(pushed) = 5
    /\ pc = "connect"

(* C3: every exception raised in the connect/receive block goes to the     *)
(* outer handlers, which put exactly one Disconnected and go to the sleep; *)
(* a Disconnected is put nowhere else; the sleep leads back to the outer   *)
(* loop's test, which, while stop_event is not set, goes on to put         *)
(* Connecting and connect again; and the listener ends only when           *)
(* stop_event is set.  No step counts the retries.                         *)
C3_FailureThenRetry ==
    [][ /\ (exc = "" /\ exc' # "") => (pc' = "except" /\ pushed' = pushed)
        /\ (pc = "except" /\ pc' # "except") =>
              /\ pc' = "sleep"
              /\ exc' = ""
              /\ pushed' = Append(pushed, ListenerStatus(Disconnected))
        /\ (pushed' # pushed /\ Last(pushed') = ListenerStatus(Disconnected)) =>
              pc = "except"
        /\ (pc = "sleep" /\ pc' # "sleep") => (pc' = "outer" /\ pushed' = pushed)
        /\ (pc = "outer" /\ pc' # "outer" /\ ~stop_event) => pc' = "put_connecting"
        /\ (pc = "put_connecting" /\ pc' # "put_connecting") =>
              /\ pc' = "connect"
              /\ pushed' = Append(pushed, ListenerStatus(Connecting))
        /\ (pc # "done" /\ pc' = "done") => stop_event
      ]_vars

\* a connection that had delivered a frame failed, Disconnected was
\* published, and the listener is connecting again
C3_Witness ==
    /\ ~stop_event
    /\ opened >= 1
    /\ received # <<>>
    /\ pc = "connect"
    /\ Len(pushed) >= 4
    /\ pushed[Len(pushed) - 1] = ListenerStatus(Disconnected)
    /\ Last(pushed) = ListenerStatus(Connecting)

(* C4: no event of type ping is ever put on the mailbox or handed to the   *)
(* driver, and the listener has called send exactly once, with the pong    *)
(* payload and on the connection the ping came in on, for every ping it    *)
(* has finished handling.                                                  *)
C4_PingAnsweredNotForwarded ==
    /\ \A i \in 1..Len(pushed) : MsgType(pushed[i].event) # "ping"
    /\ \A i \in 1..Len(dequeued) : MsgType(dequeued[i]) # "ping"
    /\ LET IsPingEntry(entry) == entry.frame.json = "object"
                                    /\ entry.frame.obj.type = "ping"
           pings == SelectSeq(Handled, IsPingEntry)
       IN  /\ Len(pongs) = Len(pings)
           /\ \A i \in 1..Len(pongs) :
                 /\ pongs[i].conn = pings[i].conn
                 /\ pongs[i].payload.value = "{\"type\":\"pong\"}"

\* two pings were answered on a connection and nothing but the listener's
\* own statuses was put
C4_Witness ==
    /\ Len(pongs) = 2
    /\ pongs[1].conn = pongs[2].conn
    /\ Len(pushed) = 2
    /\ pc = "recv"

(* C5: latest_events holds min(k, 10) entries, k being the number of       *)
(* email_processed events folded; entry i is the i-th newest of them (the  *)
(* event object itself, which carries the ai_response the loop body wrote  *)
(* into its record); it never holds more than 10.                          *)
C5_RecentEventsNewestFirst ==
    LET IsEmail(e) == MsgType(e) = "email_processed"
        emails == SelectSeq(dequeued, IsEmail)
        k      == Len(emails)
        latest == websocket_data.latest_events
    IN  /\ Len(latest) = (IF k < 10 THEN k ELSE 10)
        /\ Len(latest) <= 10
        /\ \A i \in 1..Len(latest) : latest[i] = MessageObject(emails[k + 1 - i])

\* eleven email_processed events were folded, the two newest differ
C5_Witness ==
    /\ Len(dequeued) = 11
    /\ \A i \in 1..11 : dequeued[i].type = "email_processed"
    /\ Len(websocket_data.latest_events) = 10
    /\ websocket_data.latest_events[1] # websocket_data.latest_events[2]

(* C6: for every non-empty message id folded so far, processed_emails      *)
(* holds one entry under that id: the record of the last folded event that *)
(* carried it, with ai_response set to that event's reply body, or to None *)
(* when that event carries none.                                           *)
C6_LastWriteWins ==
    \A id \in FoldedIds \ {"", None} :
        /\ id \in DOMAIN processed_emails
        /\ LET e == LastWithId(id) IN
              /\ DOMAIN processed_emails[id] = DOMAIN e.record \cup {"ai_response"}
              /\ \A k \in DOMAIN e.record : processed_emails[id][k] = e.record[k]
              /\ processed_emails[id].ai_response = ReplyBody(e)

\* m1 was folded with a reply body, then again from another sender with none
C6_Witness ==
    /\ Len(dequeued) >= 2
    /\ dequeued[1] = EmailEvent("m1", "b1", TRUE, TRUE)
    /\ dequeued[2] = EmailNoReply("m1")
    /\ DOMAIN processed_emails = {"m1"}
    /\ processed_emails["m1"].sender = "b@x.com"
    /\ processed_emails["m1"].ai_response = None

(* C7: folding an email_processed event without a message id (no record,   *)
(* no message_id, or an empty one) sets is_processing to false and puts    *)
(* the event at the head of latest_events, and leaves processed_emails as  *)
(* it was; every key of processed_emails is a non-empty message id that    *)
(* some folded email_processed event carried.                              *)
C7_NoIdNotArchived ==
    /\ [](\A key \in DOMAIN processed_emails :
             /\ key \notin {"", None}
             /\ \E i \in 1..Len(dequeued) : EmailWithId(dequeued[i], key))
    /\ [][ (dequeued' # dequeued /\ EmailWithoutId(Last(dequeued'))) =>
           /\ processed_emails' = processed_emails
           /\ websocket_data'.is_processing = FALSE
           /\ websocket_data'.latest_events # <<>>
           /\ Head(websocket_data'.latest_events) = Last(dequeued') ]_vars

\* with m1 archived and processing under way, an event with an empty
\* message id was folded
C7_Witness ==
    /\ dequeued = <<EmailEvent("m1", "b1", TRUE, TRUE), StartedEvent,
                    EmailEvent("", "b1", TRUE, TRUE)>>
    /\ DOMAIN processed_emails = {"m1"}
    /\ websocket_data.is_processing = FALSE
    /\ Head(websocket_data.latest_events) = EmailEvent("", "b1", TRUE, TRUE)

(* C8: every frame the listener has finished handling that json.loads      *)
(* decodes and that is no ping was put on the mailbox, once and in arrival *)
(* order, and the step that handles it leaves the connection open and      *)
(* returns to the receive loop.                                            *)
C8_DecodedNonPingForwarded ==
    /\ [](/\ Len(StreamPushed) = Len(DueFrames)
          /\ \A i \in 1..Len(DueFrames) :
                StreamPushed[i].event = JsonValue(DueFrames[i].frame))
    /\ [][ (pc = "decode" /\ pc' # "decode"
              /\ JsonDecodes(message[1]) /\ ~IsPing(message[1])) =>
           (pc' = "inner" /\ websocket' = "open") ]_vars

(* C9: the step that handles a frame json.loads cannot decode puts nothing *)
(* on the mailbox, raises nothing to the outer handlers (so no status is   *)
(* published for it), leaves the connection open and returns to the        *)
(* receive loop.                                                           *)
C9_UndecodableDiscarded ==
    [][ (pc = "decode" /\ pc' # "decode"
           /\ message[1].json \in {"invalid", "non_utf8"}) =>
        /\ pushed' = pushed
        /\ queue' = queue
        /\ exc' = ""
        /\ websocket' = "open"
        /\ pc' = "inner" ]_vars

(* C10: a receive timeout puts nothing on the mailbox, raises nothing,     *)
(* leaves the connection open and returns to the receive loop with no      *)
(* sleep and no connect; after any number of consecutive timeouts the      *)
(* connection is open and the listener is in the receive loop.             *)
C10_TimeoutKeepsConnection ==
    /\ [](idle > 0 => (websocket = "open" /\ pc \in {"inner", "recv"} /\ exc = ""))
    /\ [][ idle' = idle + 1 =>
           /\ pushed' = pushed
           /\ queue' = queue
           /\ exc' = ""
           /\ websocket = "open" /\ websocket' = "open"
           /\ pc' = "inner"
           /\ sleeps' = sleeps
           /\ attempts' = attempts ]_vars

\* two timeouts in a row on a connection that had delivered a frame
C10_Witness ==
    /\ idle = 2
    /\ received # <<>>
    /\ pc = "recv"
    /\ websocket = "open"

-----------------------------------------------------------------------------
\* C11: once the stop signal is set while the listener thread runs, the
\* thread eventually ends with no connection left open, whatever the listener
\* was doing (connecting, waiting in receive, handling a message, sleeping).
C11_StopEndsListener ==
    (stop_event /\ thread = "alive") ~> (thread = "dead" /\ websocket # "open")

\* the signal found a connection open: the thread has ended, the connection
\* is closed and the last status published is still Connected
C11_Witness ==
    /\ stop_event
    /\ thread = "dead"
    /\ websocket = "closed"
    /\ exc = ""
    /\ received # <<>>
    /\ Last(pushed) = ListenerStatus(Connected)

-----------------------------------------------------------------------------
\* the positions from which a listener that finds the stop signal set runs
\* to its end without a put: not started, at a loop test, in the sleep, ended
AfterLoopBody == {"none", "inner", "sleep", "outer", "done"}

\* C12 as stated: no step taken with the stop signal set pushes an event.
C12_NoPushAfterStop ==
    [][stop_event => pushed' = pushed]_vars

\* C12, amended: with the stop signal set, a listener that stands at a loop
\* test, in the backoff sleep or at its end pushes nothing from then on; only
\* a listener the signal finds inside a loop body still pushes the events of
\* that iteration.
C12_NoPushAfterStopSeen ==
    [][(stop_event /\ pc \in AfterLoopBody) =>
            (pushed' = pushed /\ pc' \in AfterLoopBody)]_vars

\* the listener forwarded a message, found the signal set and ended
C12_Witness ==
    /\ stop_event
    /\ thread = "dead"
    /\ Len(pushed) >= 3
    /\ Last(pushed).by = "stream"

-----------------------------------------------------------------------------
\* the cycle Disconnected -> Connecting -> Connected -> Disconnected
Cycle(a, b) ==
    \/ a = Disconnected /\ b = Connecting
    \/ a = Connecting /\ b = Connected
    \/ a = Connected /\ b = Disconnected

\* the cycle, and the step of a connect that fails
Lifecycle(a, b) ==
    \/ Cycle(a, b)
    \/ a = Connecting /\ b = Disconnected

IsListenerEntry(p) == p.by = "listener"

\* the statuses the listener has published, after the initial Disconnected
PublishedStatuses ==
    LET own == SelectSeq(pushed, IsListenerEntry)
    IN  <<Disconnected>> \o [i \in 1..Len(own) |-> own[i].event.status]

\* every status of the sequence is followed by one the relation allows
Follows(statuses, Allowed(_, _)) ==
    \A i \in 1..(Len(statuses) - 1) : Allowed(statuses[i], statuses[i + 1])

\* C13 as stated: the statuses the listener publishes, and the values the
\* snapshot's connection status passes through, follow the cycle only.
C13_CycleOnly ==
    /\ []Follows(PublishedStatuses, Cycle)
    /\ [][websocket_data'.connection_status # websocket_data.connection_status =>
            Cycle(websocket_data.connection_status,
                  websocket_data'.connection_status)]_vars

\* C13, amended: the statuses the listener publishes follow the cycle or go
\* from Connecting straight back to Disconnected (a connect that failed), and
\* after the fold of a status event the listener published the snapshot's
\* connection status is that event's status.
C13_Lifecycle ==
    /\ Follows(PublishedStatuses, Lifecycle)
    /\ (Len(dequeued) > 0 /\ pushed[Len(dequeued)].by = "listener") =>
            /\ websocket_data.connection_status = Last(dequeued).status
            /\ websocket_data.connected = (Last(dequeued).status = Connected)

\* a failed connect, then a connection that ended, all of it folded
C13_Witness ==
    /\ PublishedStatuses = <<Disconnected, Connecting, Disconnected,
                             Connecting, Connected, Disconnected>>
    /\ Len(dequeued) = Len(pushed)
    /\ pushed[Len(dequeued)].by = "listener"
    /\ websocket_data.connection_status = Disconnected

-----------------------------------------------------------------------------
\* the folded events that the listener published itself, by their position
OwnFolded == {i \in 1..Len(dequeued) : pushed[i].by = "listener"}

\* C14: the snapshot's connection status is one of Disconnected, Connecting
\* and Connected, and it is the status of the last event folded that the
\* listener published about its own connection (Disconnected before any): no
\* message received from the stream changes it.
C14_StatusFromListenerOnly ==
    /\ websocket_data.connection_status \in {Disconnected, Connecting, Connected}
    /\ websocket_data.connection_status =
           (IF OwnFolded = {}
            THEN Disconnected
            ELSE pushed[CHOOSE i \in OwnFolded :
                            \A j \in OwnFolded : j <= i].event.status)

-----------------------------------------------------------------------------
IsEmailProcessed(event) == MsgType(event) = "email_processed"

\* C15: every email_processed event folded has one notification of its own,
\* of the kind its result calls for: the notifications shown so far, with the
\* one still pending, are those of the folded email_processed events in the
\* order of the folds.
C15_OneToastPerEmail ==
    LET emails == SelectSeq(dequeued, IsEmailProcessed)
    IN  toasts \o ShownToasts(pending_toast) =
            [i \in 1..Len(emails) |-> ToastKind(emails[i])]

-----------------------------------------------------------------------------
\* the folded events that carry a stats field, by their position
WithStats == {i \in 1..Len(dequeued) : "stats" \in DOMAIN dequeued[i]}

\* C16: the snapshot's stats are the stats field of the last event folded
\* that carries one, whatever the type of that event, taken whole; they are
\* the initial empty record while no event folded carries a stats field.  A
\* fold of an event without the field has therefore left them as they were.
C16_StatsReplacedInFull ==
    websocket_data.stats =
        (IF WithStats = {}
         THEN EmptyDict
         ELSE dequeued[CHOOSE i \in WithStats : \A j \in WithStats : j <= i].stats)

\* full stats from a status_update, a shorter record from a
\* processing_started that replaced them, then an event without stats
C16_Witness ==
    /\ dequeued = <<[type |-> "status_update", stats |-> Stats1],
                    [type |-> "processing_started", stats |-> StatsPartial],
                    StatusEvent(Connecting)>>
    /\ websocket_data.stats = StatsPartial
    /\ DOMAIN websocket_data.stats = {"total_processed"}

-----------------------------------------------------------------------------
\* the positions of the folded events of one type
FoldedOfType(t) == {i \in 1..Len(dequeued) : MsgType(dequeued[i]) = t}

\* C17: the processing flag is true exactly when a processing_started event
\* has been folded and no email_processed event was folded after the last
\* one (so it is false before any fold); and the fold of processing_started
\* followed by email_processed with message id m1 leaves the flag false, one
\* recent event and m1 in the map.
C17_ProcessingFlag ==
    /\ websocket_data.is_processing =
           (\E i \in FoldedOfType("processing_started") :
               \A j \in FoldedOfType("email_processed") : j < i)
    /\ dequeued = <<StartedEvent, EmailEvent("m1", "b1", TRUE, TRUE)>> =>
           /\ websocket_data.is_processing = FALSE
           /\ Len(websocket_data.latest_events) = 1
           /\ "m1" \in DOMAIN processed_emails

\* the two-event scenario has been folded
C17_Witness ==
    /\ dequeued = <<StartedEvent, EmailEvent("m1", "b1", TRUE, TRUE)>>
    /\ ~websocket_data.is_processing
    /\ Len(websocket_data.latest_events) = 1
    /\ DOMAIN processed_emails = {"m1"}

-----------------------------------------------------------------------------
\* C18: a send_manual_reply whose request times out returns success = TRUE
\* with the message that says so, a request that fails otherwise (an HTTP
\* error status included) returns success = FALSE with a message, and every
\* call returns: no exception of the request leaves it.
C18_TimeoutCountsAsSent ==
    \A i \in 1..Len(replies) :
        LET outcome == replies[i].outcome
            result  == replies[i].result
        IN  /\ result.returned
            /\ DOMAIN result.value = {"success", "message"}
            /\ outcome \in {Raises("ConnectTimeout"), Raises("ReadTimeout")} =>
                   /\ result.value.success = TRUE
                   /\ result.value.message =
                          "Reply sent (request timed out but likely successful)"
            /\ outcome \in {Response(404), Response(500), Raises("ConnectionError"),
                           Raises("TooManyRedirects")} =>
                   /\ result.value.success = FALSE
                   /\ result.value.message =
                          "Request failed: " \o Raised(outcome)
            /\ outcome = Response(200) =>
                   /\ result.value.success = TRUE
                   /\ result.value.message = "Reply sent successfully"

\* a read timeout, an HTTP error status and a refused connection, each
\* answered with a result
C18_Witness ==
    /\ Len(replies) = 3
    /\ replies[1].outcome = Raises("ReadTimeout")
    /\ replies[1].result.value.success
    /\ replies[2].outcome = Response(500)
    /\ ~replies[2].result.value.success
    /\ replies[3].outcome = Raises("ConnectionError")
    /\ ~replies[3].result.value.success

-----------------------------------------------------------------------------
\* C19: the driver stands at queue.get() only while the queue holds an
\* event, whatever the listener does meanwhile, so the get never waits; only
\* that get applies an event; and while the queue is empty at the loop test
\* the driver does not reach the get and the snapshot, the map and the events
\* applied stay as they are.
C19_PollNeverBlocks ==
    /\ [](drv = "get" => ~QueueEmpty(queue))
    /\ [][dequeued' # dequeued => (drv = "get" /\ ~QueueEmpty(queue))]_vars
    /\ [][(drv = "test" /\ QueueEmpty(queue)) =>
            /\ drv' = "test"
            /\ dequeued' = dequeued
            /\ websocket_data' = websocket_data
            /\ processed_emails' = processed_emails]_vars

\* the driver has tested a queue of one event and stands at the get while
\* the listener is about to put another
C19_Witness ==
    /\ drv = "get"
    /\ Len(queue) = 1
    /\ pc = "put_connected"

-----------------------------------------------------------------------------
\* the last n events put on the mailbox
LastPushed(n) == SubSeq(PushedEvents, Len(pushed) - n + 1, Len(pushed))

\* C20: a drain acts as one removal of the whole mailbox at a single instant,
\* the test that finds the queue empty and ends it.  At that instant the
\* mailbox is empty and the events the drain has taken are exactly the events
\* put since the previous drain ended, in the order of the puts; and at any
\* time an event that was put is either among those taken, in that order, by
\* the drains so far (the current one last) or still in the queue, untouched,
\* for the next.
C20_DrainIsAtomic ==
    /\ [](/\ Len(batch) <= Len(dequeued)
          /\ batch = SubSeq(PushedEvents, Len(dequeued) - Len(batch) + 1,
                            Len(dequeued))
          /\ queue = SubSeq(PushedEvents, Len(dequeued) + 1, Len(pushed)))
    /\ [][(batch # <<>> /\ batch' = <<>>) =>
            /\ queue = <<>>
            /\ batch = LastPushed(Len(batch))
            /\ dequeued = PushedEvents
            /\ dequeued' = dequeued /\ queue' = queue]_vars

\* a drain that has taken two events stands at the get of a third while the
\* listener is about to put one more
C20_Witness ==
    /\ Len(batch) = 2
    /\ drv = "get"
    /\ Len(queue) = 1
    /\ pc = "put_connected"

-----------------------------------------------------------------------------
\* C21: at most one listener thread is alive, and one is alive exactly when
\* the manager's thread is; no thread is started while one is alive; a
\* connection is open only within the live thread, and a connect succeeds
\* only when no connection is open (the previous one, if any, was closed).
C21_OneThreadOneConnection ==
    /\ [](/\ threads_alive \in {0, 1}
          /\ (threads_alive = 1) <=> (thread = "alive")
          /\ websocket = "open" => thread = "alive")
    /\ [][thread = "alive" => threads_alive' <= threads_alive]_vars
    /\ [][opened' # opened =>
            /\ opened' = opened + 1
            /\ websocket # "open"
            /\ websocket' = "open"]_vars

\* a second connection is open after the first was closed, in the one thread
C21_Witness ==
    /\ opened = 2
    /\ websocket = "open"
    /\ threads_alive = 1

-----------------------------------------------------------------------------
\* C22: the snapshot (websocket_data with its connection status, processing
\* flag, stats and recent events, and the processed_emails map) changes only
\* in a step of the driver that takes the front event off the queue and folds
\* it; a step of the listener or of the manager (one that moves the listener,
\* puts on the queue, sets the stop signal or starts a thread) leaves the
\* snapshot as it is and takes nothing off the queue.
C22_ListenerOnlyPuts ==
    /\ [][(websocket_data' # websocket_data \/ processed_emails' # processed_emails) =>
            /\ drv = "get" /\ drv' = "test"
            /\ ~QueueEmpty(queue)
            /\ dequeued' = Append(dequeued, QueueFront(queue))
            /\ queue' = QueueRest(queue)
            /\ websocket_data' =
                   FoldWebsocketData(websocket_data, QueueFront(queue), Len(dequeued'))
            /\ UNCHANGED <<listenerVars, thread, stop_event, pushed>>]_vars
    /\ [][(pc' # pc \/ pushed' # pushed \/ stop_event' # stop_event
               \/ thread' # thread) =>
            /\ UNCHANGED <<sessionVars, dequeued, drv>>
            /\ \/ queue' = queue
               \/ queue' = Append(queue, Last(pushed').event)]_vars

\* the listener has put events that the driver has not folded yet: the
\* snapshot still shows Disconnected while the connection is open
C22_Witness ==
    /\ websocket = "open"
    /\ pc = "recv"
    /\ Len(pushed) = 3
    /\ dequeued = <<>>
    /\ websocket_data = InitialWebsocketData

-----------------------------------------------------------------------------
\* the email_processed events among the events put, newest first
PushedEmailsNewestFirst ==
    LET emails == SelectSeq(PushedEvents, IsEmailProcessed)
    IN  [i \in 1..Len(emails) |-> emails[Len(emails) + 1 - i]]

\* C23: the events held in latest_events, their records included, are
\* events exactly as they were put on the mailbox: the list is made of the
\* email_processed events put, newest first, among those already folded.
C23_EventsNotMutated ==
    LET recent == websocket_data.latest_events
        folded == Len(SelectSeq(dequeued, IsEmailProcessed))
        put    == PushedEmailsNewestFirst
    IN  /\ Len(recent) = folded
        /\ \A i \in 1..Len(recent) : recent[i] = put[Len(put) - folded + i]

-----------------------------------------------------------------------------
StatsCounters == {"total_processed", "successful_replies", "manual_reviews", "errors"}

\* stats.get(name, 0): the counter as the dashboard reads it
CounterValue(stats, name) == Get(stats, name, 0)

\* C24: each of the four stats counters of the snapshot is a non-negative
\* integer, and no fold makes any of them smaller.
C24_CountersNeverDecrease ==
    /\ [](\A name \in StatsCounters :
              CounterValue(websocket_data.stats, name) \in Nat)
    /\ [][\A name \in StatsCounters :
              CounterValue(websocket_data'.stats, name)
                  >= CounterValue(websocket_data.stats, name)]_vars

-----------------------------------------------------------------------------
\* C25: a failed backend call raises nothing into the driver and is shown
\* as an error the user can tell apart from a successful response: a failed
\* get of the manual review queue is not shown as an empty queue.
C25_FailureIsToldApart ==
    \A i \in 1..Len(views) :
        /\ Failed(views[i].outcome) => views[i].view.returned
        /\ \A j \in 1..Len(views) :
               Failed(views[i].outcome) /\ ~Failed(views[j].outcome)
                   => views[i].view # views[j].view

-----------------------------------------------------------------------------
-----------------------------------------------------------------------------
\* the status the listener published last
LastPublished == Last(PublishedStatuses)

\* the listener is past a failed inner test: in the sleep, at the outer test
\* or at its end, with the stop signal set
LeftByStop == stop_event /\ pc \in {"sleep", "outer", "done"}

\* C27 as stated: however an announced connection ends, by an error, a remote
\* close or the stop signal, the listener publishes Disconnected for it: once
\* no connection is open and no handler is about to run, the last status it
\* published is not Connected.
C27_DisconnectedAfterEveryEnd ==
    (websocket # "open" /\ pc # "except") => LastPublished # Connected

\* C27, amended: a connection that ends by an exception (transport error,
\* remote close, any other) is followed by the handler, which publishes
\* Disconnected; a connection that ends because the inner test saw the stop
\* signal is closed in silence, and Connected stays the last status.
C27_DisconnectedUnlessStopped ==
    /\ []((websocket # "open" /\ pc # "except" /\ LastPublished = Connected)
            => LeftByStop)
    /\ [][(websocket = "open" /\ websocket' # "open") =>
              \/ exc' # "" /\ pc' = "except"
              \/ stop_event /\ pc = "inner" /\ pushed' = pushed]_vars
    /\ (pc = "except") ~> (pc = "sleep" /\ LastPublished = Disconnected)

\* both ends in one run: a connection that a remote close ended, with its
\* Disconnected, then a second one that the stop signal ended, without
C27_Witness ==
    /\ opened = 2
    /\ LeftByStop
    /\ websocket = "closed"
    /\ PublishedStatuses = <<Disconnected, Connecting, Connected, Disconnected,
                             Connecting, Connected>>

-----------------------------------------------------------------------------
(* A second dashboard session.  get_websocket_manager is cached by          *)
(* st.cache_resource, so every session's script run gets the same manager   *)
(* and drains the same queue, each in a thread of its own and each into its *)
(* own st.session_state.  The second session's snapshot is the fold of the  *)
(* messages it has taken.                                                   *)

RECURSIVE SnapshotAfter(_)
SnapshotAfter(msgs) ==
    IF msgs = <<>> THEN InitialWebsocketData
    ELSE FoldWebsocketData(SnapshotAfter(SubSeq(msgs, 1, Len(msgs) - 1)),
                           Last(msgs), Len(msgs))

\* while not ws_manager.queue.empty(), in the second session
DrainTest2 ==
    /\ thread # "none"
    /\ drv2 = "test"
    /\ ~QueueEmpty(queue)
    /\ drv2' = "get"
    /\ UNCHANGED <<queue, stop_event, thread, listenerVars, drv, sessionVars,
                   pushed, dequeued, received, pongs, attempts, opened, idle,
                   sleeps, toasts, batch, replies, views, dequeued2,
                   threads_alive>>

\* message = ws_manager.queue.get() and the loop body, in the second
\* session; get() blocks while the queue is empty
DrainGet2 ==
    /\ drv2 = "get"
    /\ ~QueueEmpty(queue)
    /\ queue' = QueueRest(queue)
    /\ dequeued2' = Append(dequeued2, QueueFront(queue))
    /\ drv2' = "test"
    /\ UNCHANGED <<stop_event, thread, listenerVars, drv, sessionVars,
                   pushed, dequeued, received, pongs, attempts, opened, idle,
                   sleeps, toasts, batch, replies, views, threads_alive>>

Driver2 == DrainTest2 \/ DrainGet2

SharedNext == Start \/ Listen \/ Driver \/ Driver2

SpecShared == Init /\ [][SharedNext]_vars

\* C28: with two sessions draining the one queue, no session waits in
\* queue.get(): a session that is past its emptiness test finds an event.
C28_NoSessionBlocks ==
    /\ drv = "get" => ~QueueEmpty(queue)
    /\ drv2 = "get" => ~QueueEmpty(queue)

-----------------------------------------------------------------------------
\* the listener stands before its first step, at the outer test or at its end
AtOuterTest == pc \in {"none", "outer", "done"}

\* C29: the stop signal, once set, stays set; a thread has ended only by
\* the stop signal; and a listener that start() creates after stop() goes
\* from the outer test to its end: it attempts no connection, opens none and
\* puts no event, so the stream is not resumed.
C29_StopIsFinal ==
    /\ [](thread = "dead" => stop_event /\ pc = "done")
    /\ [][stop_event => stop_event']_vars
    /\ [][(stop_event /\ AtOuterTest) =>
              /\ AtOuterTest'
              /\ pushed' = pushed
              /\ attempts' = attempts
              /\ opened' = opened
              /\ websocket' # "open"]_vars
    /\ (stop_event /\ thread = "alive" /\ pc = "outer") ~> (thread = "dead")

\* a listener started after the stop of one that had a connection has ended
\* in its turn: its websocket was never assigned
C29_Witness ==
    /\ stop_event
    /\ thread = "dead"
    /\ opened = 1
    /\ websocket = "none"
    /\ Last(pushed) = ListenerStatus(Connected)

-----------------------------------------------------------------------------
\* the positions before i at which the listener put a status of its own
OwnBefore(i) == {j \in 1..(i - 1) : IsListenerEntry(pushed[j])}

\* the status the listener published last before the i-th put, "" if none
StatusBefore(i) ==
    IF OwnBefore(i) = {} THEN ""
    ELSE LET last == CHOOSE j \in OwnBefore(i) : \A k \in OwnBefore(i) : k <= j
         IN  pushed[last].event.status

\* C30: every event of the stream on the mailbox was put while a connection
\* was open: the status the listener published last before it is Connected.
C30_DataOnlyWhileConnected ==
    \A i \in 1..Len(pushed) :
        pushed[i].by = "stream" => StatusBefore(i) = Connected

\* an event of the stream on a connection that followed a failed connect,
\* after the Disconnected and the Connecting of the retry, and put after the
\* stop signal was set
C30_Witness ==
    /\ Len(pushed) = 5
    /\ pushed[2] = ListenerStatus(Disconnected)
    /\ pushed[3] = ListenerStatus(Connecting)
    /\ pushed[5].by = "stream"
    /\ stop_event

-----------------------------------------------------------------------------
\* the types the chain of the loop body names
HandledTypes == {"connection_status", "processing_started", "email_processed"}

\* the step folds an event of a type the chain does not name, or of no type
FoldsOther ==
    /\ Len(dequeued') = Len(dequeued) + 1
    /\ MsgType(Last(dequeued')) \notin HandledTypes

\* C31: the fold of an event whose type is none of connection_status,
\* processing_started and email_processed leaves the connection status, the
\* processing flag, the recent events, the message-id map and the pending
\* notification as they were; the stats become the event's stats when it
\* carries some and stay otherwise, and the time of the last update changes.
C31_OtherTypesOnlyStats ==
    [][FoldsOther =>
          LET msg == Last(dequeued')
          IN  /\ websocket_data'.connection_status = websocket_data.connection_status
              /\ websocket_data'.connected = websocket_data.connected
              /\ websocket_data'.is_processing = websocket_data.is_processing
              /\ websocket_data'.latest_events = websocket_data.latest_events
              /\ websocket_data'.last_processed_event
                     = websocket_data.last_processed_event
              /\ processed_emails' = processed_emails
              /\ pending_toast' = pending_toast
              /\ websocket_data'.stats = (IF "stats" \in DOMAIN msg THEN msg.stats
                                          ELSE websocket_data.stats)
              /\ websocket_data'.last_update # websocket_data.last_update]_vars

\* an event of an unnamed type and without stats was folded last, while an
\* email is being processed, after an event that set the stats
C31_Witness ==
    /\ Len(dequeued) = 3
    /\ dequeued[1] = [type |-> "status_update", stats |-> Stats1]
    /\ dequeued[2] = StartedEvent
    /\ dequeued[3] = [type |-> "heartbeat"]
    /\ websocket_data.is_processing
    /\ websocket_data.stats = Stats1

=============================================================================
